---- MODULE Spec2Model ----
(***************************************************************************)
(* Model of gorcery_app.py: the per-session cart, the add-to-cart form,    *)
(* the clear-cart button and the checkout form of the grocery pickup app.  *)
(* Every step of the model is one rerun of the Streamlit script caused by  *)
(* one UI event.  Money is counted in mills (1/1000 of a dollar) so that   *)
(* round(x, 2) is a real conversion: it maps to the nearest multiple of    *)
(* ten mills (a whole cent).                                               *)
(***************************************************************************)
EXTENDS Integers, Sequences, FiniteSets, TLC

\* ------------------------------------------------------------------ bounds
\* Largest quantity one cart line is let to accumulate in the model.
MaxQty == 4
\* Largest number of orders placed in one session of the model.
MaxOrders == 2
\* Last tick of the wall clock.
MaxClock == 2

\* --------------------------------------------------------------- constants
\* strftime('%Y%m%d-%H%M%S') keeps whole seconds; the clock ticks twice a second.
TicksPerSecond == 2
\* round(x, 2) keeps cents: ten mills.
MillsPerCent == 10
\* pd.to_numeric(..., errors="coerce") leaves NaN in S.No (nullable Int64).
NaN == -999

\* ---------------------------------------------------------------- inventory
Row(sno, cat, name, stock, price) ==
    [SNo |-> sno, ItemCategory |-> cat, ItemName |-> name, Stock |-> stock, Price |-> price]

\* Tables normalize_inventory can return (rows in file order; prices in mills).
\* S.No is unique where present and item names are unique, as the data model of
\* the inventory states.
\*  1: every row with S.No; a whole-cent and a sub-cent price
\*  2: a row without S.No (keyed by the hash of its name), a row out of stock
\*  3: no row with S.No; an unparseable price (0.0) and a negative stock
Inventories ==
    { << Row(1, "Fruit", "Apple", 2, 500), Row(2, "Dairy", "Milk", 1, 334) >>,
      << Row(NaN, "Fruit", "Apple", 2, 334), Row(1, "Dairy", "Milk", 0, 500) >>,
      << Row(NaN, "Fruit", "Pear", 1, 0), Row(NaN, "Dairy", "Milk", -1, 334) >> }

\* hash(str): an integer; distinct names get distinct values outside the S.No range.
hash(name) == IF name = "Apple" THEN 7001 ELSE IF name = "Milk" THEN 7002 ELSE 7003

\* uuid.uuid4() as str: the first 8 characters and the rest.
UUIDs == { <<"3f2a9c1e", "a">>, <<"3f2a9c1e", "b">>, <<"b07d4e55", "a">> }

\* str.upper() on the 8-character slices above.
upper(s) == IF s = "3f2a9c1e" THEN "3F2A9C1E" ELSE IF s = "b07d4e55" THEN "B07D4E55" ELSE s

CustomerNames == {"", "Ann"}
Phones == {"", "555"}

\* ------------------------------------------------------------ pure helpers
Max(a, b) == IF a >= b THEN a ELSE b

\* round(x, 2) for x >= 0 in mills.  No product of the model ends in 5 mills,
\* so the tie rule of round() on binary floats is never exercised.
round2(x) ==
    LET r == x % MillsPerCent
    IN IF r < 5 THEN x - r
       ELSE IF r > 5 THEN x - r + MillsPerCent
       ELSE IF ((x - r) \div MillsPerCent) % 2 = 0 THEN x - r ELSE x - r + MillsPerCent

RECURSIVE SumLineTotals(_)
SumLineTotals(lines) ==
    IF lines = <<>> THEN 0 ELSE lines[1].line_total + SumLineTotals(Tail(lines))

\* inv[inv["Item Category"] == category]; "All" keeps the whole table.
FilterCategory(df, category) ==
    LET Keep(r) == category = "All" \/ r.ItemCategory = category
    IN SelectSeq(df, Keep)

\* df[df["Item Name"] == name]: the rows with that name, in table order.
RowsNamed(df, name) ==
    LET Keep(r) == r.ItemName = name
    IN SelectSeq(df, Keep)

\* ---------------------------------------------------------------- the cart
\* The cart is a dict in insertion order: a sequence of lines, each with its key.
CartKey(item_row) == IF item_row.SNo # NaN THEN item_row.SNo ELSE hash(item_row.ItemName)

HasKey(c, key) == \E i \in DOMAIN c : c[i].key = key

\* Mutant: a re-add appends a second line instead of merging.
add_to_cart_duplicating(c, item_row, qty) ==
    Append(c, [key |-> CartKey(item_row),
               SNo |-> item_row.SNo,
               ItemCategory |-> item_row.ItemCategory,
               ItemName |-> item_row.ItemName,
               qty |-> qty,
               unit_price |-> item_row.Price,
               line_total |-> round2(qty * item_row.Price)])

\* Mutant: a re-add increments the quantity and leaves the line total stale.
add_to_cart_stale_total(c, item_row, qty) ==
    LET key == CartKey(item_row)
    IN IF HasKey(c, key)
       THEN [i \in DOMAIN c |->
                IF c[i].key = key THEN [c[i] EXCEPT !.qty = @ + qty] ELSE c[i]]
       ELSE Append(c, [key |-> key,
                       SNo |-> item_row.SNo,
                       ItemCategory |-> item_row.ItemCategory,
                       ItemName |-> item_row.ItemName,
                       qty |-> qty,
                       unit_price |-> item_row.Price,
                       line_total |-> round2(qty * item_row.Price)])

\* Mutant: a re-add assigns the quantity instead of adding to it.
add_to_cart_overwriting(c, item_row, qty) ==
    LET key == CartKey(item_row)
    IN IF HasKey(c, key)
       THEN [i \in DOMAIN c |->
                IF c[i].key = key
                THEN [c[i] EXCEPT !.qty = qty,
                                  !.line_total = round2(qty * c[i].unit_price)]
                ELSE c[i]]
       ELSE Append(c, [key |-> key,
                       SNo |-> item_row.SNo,
                       ItemCategory |-> item_row.ItemCategory,
                       ItemName |-> item_row.ItemName,
                       qty |-> qty,
                       unit_price |-> item_row.Price,
                       line_total |-> round2(qty * item_row.Price)])

add_to_cart(c, item_row, qty) ==
    LET key == CartKey(item_row)
    IN IF HasKey(c, key)
       THEN [i \in DOMAIN c |->
                IF c[i].key = key
                THEN [c[i] EXCEPT !.qty = @ + qty,
                                  !.line_total = round2((c[i].qty + qty) * c[i].unit_price)]
                ELSE c[i]]
       ELSE Append(c, [key |-> key,
                       SNo |-> item_row.SNo,
                       ItemCategory |-> item_row.ItemCategory,
                       ItemName |-> item_row.ItemName,
                       qty |-> qty,
                       unit_price |-> item_row.Price,
                       line_total |-> round2(qty * item_row.Price)])

cart_to_dataframe(c) ==
    [i \in DOMAIN c |-> <<c[i].ItemCategory, c[i].ItemName, c[i].qty,
                          c[i].unit_price, c[i].line_total>>]

cart_total(c) == round2(SumLineTotals(c))

reset_cart == <<>>

\* ------------------------------------------------------------ UI messages
MsgOutOfStock == <<"warning", "Sorry, this item is out of stock (per your sheet).">>
MsgAdded(qty, name) == <<"success", "Added", qty, name>>
MsgCleared == <<"info", "Cart cleared.">>
MsgEmpty == <<"warning", "Your cart is empty.">>
MsgDetails == <<"warning", "Please fill your details and acknowledge the no-online-payment policy.">>
MsgNoStock(name) == <<"error", "Not enough stock", name>>
MsgPlaced(oid) == <<"success", "Order placed!", oid>>

\* One rerun's result: the session state it leaves and what it displayed.
Result(S, m, n) ==
    [cart |-> S.cart, inventory |-> S.inventory, last_order_id |-> S.last_order_id,
     receipt_pdf |-> S.receipt_pdf, msgs |-> m, examined |-> n]

\* ------------------------------------------------------- add_to_cart_form
\* Mutant: the out-of-stock test is missing.
add_to_cart_form_unchecked(S, item_row, qty) ==
    Result([S EXCEPT !.cart = add_to_cart(S.cart, item_row, qty)],
           <<MsgAdded(qty, item_row.ItemName)>>, 0)

add_to_cart_form(S, item_row, qty) ==
    LET max_qty == item_row.Stock
    IN IF max_qty <= 0
       THEN Result(S, <<MsgOutOfStock>>, 0)
       ELSE Result([S EXCEPT !.cart = add_to_cart(S.cart, item_row, qty)],
                   <<MsgAdded(qty, item_row.ItemName)>>, 0)

\* ---------------------------------------------------------- checkout_form
\* The line fails the stock check of the validation loop.
LineFails(inv_now, item) ==
    LET row == RowsNamed(inv_now, item.ItemName)
    IN row = <<>> \/ row[1].Stock < item.qty

\* Mutant: the loop reports a failing line and goes on to the next one.
RECURSIVE validation_loop_no_break(_, _, _)
validation_loop_no_break(c, inv_now, i) ==
    IF i > Len(c) THEN [ok |-> TRUE, errors |-> <<>>, examined |-> Len(c)]
    ELSE LET rest == validation_loop_no_break(c, inv_now, i + 1)
         IN IF LineFails(inv_now, c[i])
            THEN [ok |-> FALSE,
                  errors |-> <<MsgNoStock(c[i].ItemName)>> \o rest.errors,
                  examined |-> Len(c)]
            ELSE rest

\* Mutant: only a missing item fails; the stock comparison is lost.
RECURSIVE validation_loop_no_stock_test(_, _, _)
validation_loop_no_stock_test(c, inv_now, i) ==
    IF i > Len(c) THEN [ok |-> TRUE, errors |-> <<>>, examined |-> Len(c)]
    ELSE IF RowsNamed(inv_now, c[i].ItemName) = <<>>
         THEN [ok |-> FALSE, errors |-> <<MsgNoStock(c[i].ItemName)>>, examined |-> i]
         ELSE validation_loop_no_stock_test(c, inv_now, i + 1)

\* for _, item in cart.items(): ... break  (from line i of the cart on).
RECURSIVE validation_loop(_, _, _)
validation_loop(c, inv_now, i) ==
    IF i > Len(c) THEN [ok |-> TRUE, errors |-> <<>>, examined |-> Len(c)]
    ELSE IF LineFails(inv_now, c[i])
         THEN [ok |-> FALSE, errors |-> <<MsgNoStock(c[i].ItemName)>>, examined |-> i]
         ELSE validation_loop(c, inv_now, i + 1)

\* datetime.now().strftime('%Y%m%d-%H%M%S'): the whole second of the tick.
strftime(now) == now \div TicksPerSecond

\* f"ORD-{...}-{str(uuid.uuid4())[:8].upper()}"
OrderId(now, uuid4) == <<"ORD-", strftime(now), upper(uuid4[1])>>

\* make_pdf: the receipt, as the fields it prints (the pickup date and time are
\* printed as entered and play no part in any decision; they are left out).
make_pdf(order_id, customer_name, phone, items_df, total) ==
    <<order_id, customer_name, phone, "In-store only", items_df, total>>

\* Mutant: the order is stored and the cart is not reset.
place_order_keeps_cart(S, customer_name, phone, now, uuid4, n) ==
    LET oid == OrderId(now, uuid4)
    IN Result([S EXCEPT !.last_order_id = oid,
                        !.receipt_pdf = make_pdf(oid, customer_name, phone,
                                                 cart_to_dataframe(S.cart), cart_total(S.cart))],
              <<MsgPlaced(oid)>>, n)

\* Mutant: placing the order takes the ordered quantities out of the stock.
place_order_decrements_stock(S, customer_name, phone, now, uuid4, n) ==
    LET oid == OrderId(now, uuid4)
        Ordered(r) == \E i \in DOMAIN S.cart : S.cart[i].ItemName = r.ItemName
    IN Result([S EXCEPT !.last_order_id = oid,
                        !.receipt_pdf = make_pdf(oid, customer_name, phone,
                                                 cart_to_dataframe(S.cart), cart_total(S.cart)),
                        !.inventory = [k \in DOMAIN S.inventory |->
                                          IF Ordered(S.inventory[k])
                                          THEN [S.inventory[k] EXCEPT !.Stock = @ - 1]
                                          ELSE S.inventory[k]],
                        !.cart = reset_cart],
              <<MsgPlaced(oid)>>, n)

\* The success branch: the id, the receipt, the message, reset_cart().
place_order(S, customer_name, phone, now, uuid4, n) ==
    LET oid == OrderId(now, uuid4)
    IN Result([S EXCEPT !.last_order_id = oid,
                        !.receipt_pdf = make_pdf(oid, customer_name, phone,
                                                 cart_to_dataframe(S.cart), cart_total(S.cart)),
                        !.cart = reset_cart],
              <<MsgPlaced(oid)>>, n)

\* Mutant: the acknowledgment checkbox is not tested.
checkout_form_ignores_agree(S, customer_name, phone, agree, now, uuid4) ==
    IF Len(S.cart) = 0 THEN Result(S, <<MsgEmpty>>, 0)
    ELSE IF customer_name = "" \/ phone = "" THEN Result(S, <<MsgDetails>>, 0)
    ELSE LET v == validation_loop(S.cart, S.inventory, 1)
         IN IF v.ok
            THEN place_order(S, customer_name, phone, now, uuid4, v.examined)
            ELSE Result(S, v.errors, v.examined)

checkout_form(S, customer_name, phone, agree, now, uuid4) ==
    IF Len(S.cart) = 0 THEN Result(S, <<MsgEmpty>>, 0)
    ELSE IF customer_name = "" \/ phone = "" \/ ~agree THEN Result(S, <<MsgDetails>>, 0)
    ELSE LET v == validation_loop(S.cart, S.inventory, 1)
         IN IF v.ok
            THEN place_order(S, customer_name, phone, now, uuid4, v.examined)
            ELSE Result(S, v.errors, v.examined)

\* ------------------------------------------------------------------ state
VARIABLES
    cart,           \* st.session_state.cart
    inventory,      \* st.session_state.inventory
    last_order_id,  \* st.session_state["last_order_id"], <<>> while unset
    receipt_pdf,    \* st.session_state["receipt_pdf"], <<>> while unset
    msgs,           \* what the last rerun displayed with st.warning/error/success/info
    examined,       \* cart lines the validation loop of the last rerun looked up
    event,          \* the UI event that caused the last rerun, with its inputs
    clock,          \* datetime.now(), in ticks
    issued          \* every order placed so far: its id and the uuid4 it drew

vars == <<cart, inventory, last_order_id, receipt_pdf, msgs, examined, event, clock, issued>>

Session ==
    [cart |-> cart, inventory |-> inventory, last_order_id |-> last_order_id,
     receipt_pdf |-> receipt_pdf]

\* The rerun leaves the session state and the display of result R.
Leaves(R) ==
    /\ cart' = R.cart
    /\ inventory' = R.inventory
    /\ last_order_id' = R.last_order_id
    /\ receipt_pdf' = R.receipt_pdf
    /\ msgs' = R.msgs
    /\ examined' = R.examined

QtyInCart(c, key) ==
    IF HasKey(c, key) THEN c[CHOOSE i \in DOMAIN c : c[i].key = key].qty ELSE 0

Categories(df) == {df[k].ItemCategory : k \in DOMAIN df}

Init ==
    /\ cart = <<>>
    /\ inventory \in Inventories
    /\ last_order_id = <<>>
    /\ receipt_pdf = <<>>
    /\ msgs = <<>>
    /\ examined = 0
    /\ event = [form |-> "load"]
    /\ clock = 0
    /\ issued = <<>>

\* "Add" of add_to_cart_form: a category filter, an item of the filtered table,
\* a quantity the number_input lets through.
AddSubmit ==
    \E category \in {"All"} \cup Categories(inventory) :
      LET inv == FilterCategory(inventory, category)
      IN \E k \in DOMAIN inv :
           LET chosen_name == inv[k].ItemName
               item_row == RowsNamed(inv, chosen_name)[1]
               max_qty == item_row.Stock
           IN \E qty \in 1 .. Max(max_qty, 1) :
                /\ QtyInCart(cart, CartKey(item_row)) + qty <= MaxQty
                /\ Leaves(add_to_cart_form(Session, item_row, qty))
                /\ event' = [form |-> "add_to_cart_form", item_row |-> item_row, qty |-> qty]
                /\ UNCHANGED <<clock, issued>>

\* "Clear cart"
ClearCart ==
    /\ Leaves(Result([Session EXCEPT !.cart = reset_cart], <<MsgCleared>>, 0))
    /\ event' = [form |-> "clear_cart"]
    /\ UNCHANGED <<clock, issued>>

\* "Place Order" of checkout_form
PlaceOrder ==
    \E customer_name \in CustomerNames, phone \in Phones, agree \in BOOLEAN, uuid4 \in UUIDs :
      LET R == checkout_form(Session, customer_name, phone, agree, clock, uuid4)
          placed == R.msgs # <<>> /\ R.msgs[1][1] = "success"
      IN /\ Len(issued) < MaxOrders
         /\ \A j \in DOMAIN issued : issued[j].uuid # uuid4
         /\ Leaves(R)
         /\ event' = [form |-> "checkout_form", customer_name |-> customer_name,
                       phone |-> phone, agree |-> agree]
         /\ issued' = IF placed
                       THEN Append(issued, [oid |-> R.last_order_id, uuid |-> uuid4])
                       ELSE issued
         /\ UNCHANGED clock

\* Time passes between two reruns.
Tick ==
    /\ clock < MaxClock
    /\ clock' = clock + 1
    /\ UNCHANGED <<cart, inventory, last_order_id, receipt_pdf, msgs, examined, event, issued>>

Next == AddSubmit \/ ClearCart \/ PlaceOrder \/ Tick

Spec == Init /\ [][Next]_vars

\* ================================================================ claims
\* The step is a rerun caused by the named form (Tick leaves event alone).
IsRerun(form) == clock' = clock /\ event'.form = form

\* The cart line stored under key.
LineOf(c, key) == c[CHOOSE i \in DOMAIN c : c[i].key = key]

\* Cart lines, by position, that fail the stock check of checkout.
FailingLines(c, inv_now) == {i \in DOMAIN c : LineFails(inv_now, c[i])}

FieldsSupplied(e) == e.customer_name # "" /\ e.phone # "" /\ e.agree

WholeCents(x) == x % MillsPerCent = 0

C2_TotalIsSumOfLines ==
    /\ cart_total(cart) = SumLineTotals(cart)
    /\ cart = <<>> => cart_total(cart) = 0
    /\ \A i \in DOMAIN cart :
          /\ cart[i].line_total = round2(cart[i].qty * cart[i].unit_price)
          /\ WholeCents(cart[i].line_total)
          /\ WholeCents(cart[i].unit_price) =>
                cart[i].line_total = cart[i].qty * cart[i].unit_price

\* C2 witness: after an order, a cart of two lines, one of them re-added to.
C2_Witness ==
    /\ last_order_id # <<>>
    /\ Len(cart) = 2
    /\ \E i \in DOMAIN cart : cart[i].qty >= 3 /\ cart[i].unit_price = 334
    /\ cart_total(cart) > 0

\* C3: Place Order with a cart holding a line that fails the stock check (quantity
\* above the stock of its item, or item name not in the inventory) places no order
\* and leaves the cart as it was.
C3_FailedCheckoutKeepsCart ==
    [][ (IsRerun("checkout_form") /\ FailingLines(cart, inventory) # {})
        => /\ cart' = cart
           /\ last_order_id' = last_order_id
           /\ receipt_pdf' = receipt_pdf
           /\ issued' = issued
           /\ \A k \in DOMAIN msgs' : msgs'[k][1] # "success"
      ]_vars

\* C3 witness: the last rerun was a checkout that reported the stock error, and the
\* cart still holds the failing line.
C3_Witness ==
    /\ event.form = "checkout_form"
    /\ FailingLines(cart, inventory) # {}
    /\ msgs # <<>>
    /\ msgs[1][1] = "error"

\* C4: Place Order with a non-empty cart, name, phone and acknowledgment supplied
\* and no line failing the stock check places the order: last_order_id and the
\* receipt are set, and the cart is empty afterwards.
C4_CheckoutPlacesOrder ==
    [][ ( /\ IsRerun("checkout_form")
          /\ cart # <<>>
          /\ FieldsSupplied(event')
          /\ FailingLines(cart, inventory) = {} )
        => /\ cart' = <<>>
           /\ last_order_id' # <<>>
           /\ receipt_pdf' # <<>>
           /\ receipt_pdf'[1] = last_order_id'
           /\ receipt_pdf'[5] = cart_to_dataframe(cart)
           /\ msgs' = <<MsgPlaced(last_order_id')>>
           /\ Len(issued') = Len(issued) + 1
           /\ issued'[Len(issued')].oid = last_order_id'
      ]_vars

\* C4 witness: an order of two lines has just been placed and the cart is empty.
C4_Witness ==
    /\ event.form = "checkout_form"
    /\ msgs = <<MsgPlaced(last_order_id)>>
    /\ cart = <<>>
    /\ receipt_pdf # <<>>
    /\ Len(receipt_pdf[5]) = 2

\* C5: any two orders placed have different order ids, also when their timestamps
\* fall in the same second; an id is "ORD-", the timestamp and the 8-character
\* suffix of a fresh uuid4.
C5_OrderIdsDiffer ==
    /\ \A i, j \in DOMAIN issued : i # j => issued[i].oid # issued[j].oid
    /\ \A i \in DOMAIN issued :
          /\ Len(issued[i].oid) = 3
          /\ issued[i].oid[1] = "ORD-"
          /\ issued[i].oid[3] = upper(issued[i].uuid[1])

\* C6: a Place Order with an empty cart, a missing name, phone or acknowledgment, or
\* a line failing the stock check leaves last_order_id, the receipt and the cart as
\* they were; no step other than Place Order changes last_order_id or the receipt.
C6_OrderOnlyAtSuccessfulCheckout ==
    [][ /\ ( /\ IsRerun("checkout_form")
              /\ \/ cart = <<>>
                 \/ ~FieldsSupplied(event')
                 \/ FailingLines(cart, inventory) # {} )
           => /\ last_order_id' = last_order_id
              /\ receipt_pdf' = receipt_pdf
              /\ cart' = cart
              /\ issued' = issued
        /\ ~IsRerun("checkout_form")
           => /\ last_order_id' = last_order_id
              /\ receipt_pdf' = receipt_pdf
              /\ issued' = issued
      ]_vars

\* C6 witness: with an order already stored, a checkout of a non-empty cart was
\* turned down for missing details.
C6_Witness ==
    /\ event.form = "checkout_form"
    /\ ~event.agree
    /\ msgs = <<MsgDetails>>
    /\ last_order_id # <<>>
    /\ cart # <<>>

\* C7: an add-to-cart submission changes the cart only when the stock of the
\* selected item is at least 1 and the quantity q is within 1 .. stock; for an item
\* with stock 0 or less it shows the out-of-stock warning and leaves the cart alone.
C7_AddOnlyWithinStock ==
    [][ IsRerun("add_to_cart_form")
        => LET r == event'.item_row
               q == event'.qty
           IN /\ cart' # cart => (r.Stock >= 1 /\ 1 <= q /\ q <= r.Stock)
              /\ r.Stock <= 0 => (cart' = cart /\ msgs' = <<MsgOutOfStock>>)
      ]_vars

\* C7 witness: an add for an item with a negative stock was turned down, the cart
\* holding another item.
C7_Witness ==
    /\ event.form = "add_to_cart_form"
    /\ event.item_row.Stock < 0
    /\ msgs = <<MsgOutOfStock>>
    /\ cart # <<>>

\* C8: no step (add, clear, place order, successful or not) changes the stock or the
\* price of any item of the session inventory; a placed order does not take its
\* quantities out of the stock.
C8_InventoryImmutable ==
    [][inventory' = inventory]_vars

\* C8 witness: an order was placed and the same item was added to the cart again.
C8_Witness ==
    /\ Len(issued) = 1
    /\ event.form = "add_to_cart_form"
    /\ cart # <<>>
    /\ cart[1].ItemName = receipt_pdf[5][1][2]

\* C9: when lines of the cart fail the stock check at checkout, exactly one error is
\* reported, for the first failing line in cart order, and the loop has looked at
\* no line after it.
C9_ValidationFailsFast ==
    [][ ( /\ IsRerun("checkout_form")
          /\ cart # <<>>
          /\ FieldsSupplied(event')
          /\ FailingLines(cart, inventory) # {} )
        => LET first == CHOOSE i \in FailingLines(cart, inventory) :
                            \A j \in FailingLines(cart, inventory) : i <= j
           IN /\ msgs' = <<MsgNoStock(cart[first].ItemName)>>
              /\ examined' = first
      ]_vars

\* C9 witness: both lines of the cart fail the check, and the checkout reported one
\* error after looking at one line.
C9_Witness ==
    /\ event.form = "checkout_form"
    /\ Cardinality(FailingLines(cart, inventory)) = 2
    /\ Len(msgs) = 1
    /\ msgs[1][1] = "error"
    /\ examined = 1

\* The stock of the item of a cart line, as checkout looks it up.
StockOf(inv_now, item) == RowsNamed(inv_now, item.ItemName)[1].Stock

\* C10 as claimed: in every reachable state every cart line's quantity is at least
\* 1 and at most the stock of its item.
C10_QtyWithinStock ==
    \A i \in DOMAIN cart :
        /\ cart[i].qty >= 1
        /\ cart[i].qty <= StockOf(inventory, cart[i])

\* C10 as amended: every cart line's quantity is at least 1, and one accepted
\* add-to-cart submission raises the quantity of its line by the submitted
\* quantity, which is at least 1 and at most the stock of the item.
C10_EachAddWithinStock ==
    [][ /\ \A i \in DOMAIN cart' : cart'[i].qty >= 1
        /\ (IsRerun("add_to_cart_form") /\ cart' # cart)
           => LET r == event'.item_row
                  grown == QtyInCart(cart', CartKey(r)) - QtyInCart(cart, CartKey(r))
              IN /\ grown = event'.qty
                 /\ 1 <= grown
                 /\ grown <= r.Stock
      ]_vars

\* C10 witness: accepted adds have raised a line above the stock of its item.
C10_Witness ==
    /\ event.form = "add_to_cart_form"
    /\ \E i \in DOMAIN cart :
          /\ cart[i].key = CartKey(event.item_row)
          /\ cart[i].qty > StockOf(inventory, cart[i])
          /\ event.qty <= StockOf(inventory, cart[i])

====
